---- MODULE Spec2Model ----
(***************************************************************************)
(* Bright Data SERP proxy (src/index.js, first variant, lines 1-464).      *)
(*                                                                         *)
(* Three specifications over one set of variables:                         *)
(*   SpecUnwrap  the redirect-wrapper unwrap step applied twice to an href *)
(*   SpecParse   parseGoogleHTMLWithCheerio, one loop iteration per step   *)
(*   Spec        the two search routes, one step per await of a handler    *)
(* Strings are TLA+ strings; JavaScript string methods are operators on    *)
(* them, computed character by character.                                  *)
(***************************************************************************)
EXTENDS Integers, Sequences, FiniteSets, TLC

VARIABLES
    h, once, twice, upc,                              \* SpecUnwrap
    html, query, idx, results, seenUrls, ppc, ret, pushed,  \* SpecParse
    apiToken, req                                     \* Spec

uvars == <<h, once, twice, upc>>
pvars == <<html, query, idx, results, seenUrls, ppc, ret, pushed>>
svars == <<apiToken, req>>
vars == <<h, once, twice, upc, html, query, idx, results, seenUrls, ppc, ret,
          pushed, apiToken, req>>

(***************************************************************************)
(* JavaScript string methods                                               *)
(***************************************************************************)
Min(a, b) == IF a < b THEN a ELSE b

\* String.prototype.substring(a, b) for 0 <= a <= b: code units a .. b-1.
Substring(s, a, b) == SubSeq(s, Min(a, Len(s)) + 1, Min(b, Len(s)))

\* String.prototype.substring(a): from code unit a to the end.
SubstringFrom(s, a) == SubSeq(s, Min(a, Len(s)) + 1, Len(s))

\* String.prototype.startsWith(p)
StartsWith(s, p) == Len(s) >= Len(p) /\ SubSeq(s, 1, Len(p)) = p

\* String.prototype.indexOf(p): 0-based position of the first match, -1 if none.
IndexOf(s, p) ==
    IF \E k \in 0..(Len(s) - Len(p)) : SubSeq(s, k + 1, k + Len(p)) = p
    THEN CHOOSE k \in 0..(Len(s) - Len(p)) :
            /\ SubSeq(s, k + 1, k + Len(p)) = p
            /\ \A j \in 0..(k - 1) : SubSeq(s, j + 1, j + Len(p)) # p
    ELSE -1

\* String.prototype.includes(p)
Includes(s, p) == IndexOf(s, p) # -1

\* The percent escapes that occur in the hrefs and queries of this model.
Escapes ==
    { <<"%2F", "/">>, <<"%3F", "?">>, <<"%3D", "=">>, <<"%3A", ":">>,
      <<"%26", "&">>, <<"%25", "%">>, <<"%20", " ">>, <<"%22", "\"">> }

\* application/x-www-form-urlencoded decoding of one name or value, as
\* URLSearchParams does it: '+' is a space, %XX is the escaped character, a
\* '%' that starts no escape stays.
RECURSIVE FormDecode(_)
FormDecode(s) ==
    IF s = "" THEN ""
    ELSE IF SubSeq(s, 1, 1) = "+" THEN " " \o FormDecode(SubstringFrom(s, 1))
    ELSE IF \E e \in Escapes : StartsWith(s, e[1])
         THEN (CHOOSE e \in Escapes : StartsWith(s, e[1]))[2]
                \o FormDecode(SubstringFrom(s, 3))
    ELSE SubSeq(s, 1, 1) \o FormDecode(SubstringFrom(s, 1))

\* The characters encodeURIComponent leaves alone, among those of this model.
Unreserved ==
    { "a", "b", "c", "d", "e", "f", "g", "h", "i", "j", "k", "l", "m", "n",
      "o", "p", "q", "r", "s", "t", "u", "v", "w", "x", "y", "z", "0", "1",
      "2", "3", "4", "5", "6", "7", "8", "9", "_", "-", ".", "~", "!", "*",
      "'", "(", ")" }

\* encodeURIComponent(s): every other character becomes its %XX escape.
RECURSIVE EncodeURIComponent(_)
EncodeURIComponent(s) ==
    IF s = "" THEN ""
    ELSE LET c == SubSeq(s, 1, 1) IN
         (IF c \in Unreserved THEN c
          ELSE IF \E e \in Escapes : e[2] = c
               THEN (CHOOSE e \in Escapes : e[2] = c)[1]
               ELSE "%3F")
         \o EncodeURIComponent(SubstringFrom(s, 1))

\* new URLSearchParams(init).get(name): a leading '?' is dropped, the rest is
\* split at '&', each piece at its first '='; the value of the first piece
\* whose decoded name is `name`; found = FALSE stands for null.
NotFound == [found |-> FALSE, value |-> ""]

RECURSIVE SearchParamsGet(_, _)
SearchParamsGet(qs, name) ==
    IF qs = "" THEN NotFound
    ELSE LET amp   == IndexOf(qs, "&")
             piece == IF amp = -1 THEN qs ELSE Substring(qs, 0, amp)
             rest  == IF amp = -1 THEN "" ELSE SubstringFrom(qs, amp + 1)
             eq    == IndexOf(piece, "=")
             nm    == IF eq = -1 THEN piece ELSE Substring(piece, 0, eq)
             val   == IF eq = -1 THEN "" ELSE SubstringFrom(piece, eq + 1)
         IN  IF piece # "" /\ FormDecode(nm) = name
             THEN [found |-> TRUE, value |-> FormDecode(val)]
             ELSE SearchParamsGet(rest, name)

URLSearchParamsGet(init, name) ==
    SearchParamsGet(IF StartsWith(init, "?") THEN SubstringFrom(init, 1) ELSE init,
                    name)

(***************************************************************************)
(* The redirect-wrapper unwrap step, index.js 368-372                      *)
(***************************************************************************)
\* A plausible slip: an href that is no wrapper is percent-decoded too.
UnwrapDecodingAll(url) ==
    IF url # "" /\ StartsWith(url, "/url?q=")
    THEN LET q == URLSearchParamsGet(SubstringFrom(url, IndexOf(url, "?")), "q")
         IN  IF ~q.found \/ q.value = "" THEN url ELSE q.value
    ELSE FormDecode(url)

\* if (url && url.startsWith('/url?q=')) { url = urlParams.get('q') || url; }
UnwrapRedirect(url) ==
    IF url # "" /\ StartsWith(url, "/url?q=")
    THEN LET q == URLSearchParamsGet(SubstringFrom(url, IndexOf(url, "?")), "q")
         IN  IF ~q.found \/ q.value = "" THEN url ELSE q.value
    ELSE url


\* String.prototype.trim(), for the one whitespace character of this model.
RECURSIVE TrimStart(_)
TrimStart(s) ==
    IF s # "" /\ SubSeq(s, 1, 1) = " " THEN TrimStart(SubstringFrom(s, 1)) ELSE s

RECURSIVE TrimEnd(_)
TrimEnd(s) ==
    IF s # "" /\ SubSeq(s, Len(s), Len(s)) = " "
    THEN TrimEnd(Substring(s, 0, Len(s) - 1)) ELSE s

Trim(s) == TrimEnd(TrimStart(s))

(***************************************************************************)
(* parseGoogleHTMLWithCheerio, index.js 285-436                            *)
(*                                                                         *)
(* The markup is modelled by what cheerio gives the code for it: whether   *)
(* html is a string, whether it is empty, whether cheerio.load throws, and *)
(* the candidate blocks $('div.tF2Cxc, div.kvH3mc, #search div.g') in      *)
(* document order. A block is the record of the values the callback reads  *)
(* from its element:                                                       *)
(*   inTextAd      closest('[data-text-ad="1"]').length > 0                *)
(*   spans         every span of the block: its trimmed text, and whether  *)
(*                 closest('h3, div.yuRUbf, a[href]') finds an ancestor    *)
(*   adsRegion     find('div[role="region"][aria-label*="Ads"]')           *)
(*   noSnippet     find('div[data-nosnippet="true"]')                      *)
(*   accordion     find('g-accordion-expander')                            *)
(*   heading2      text of the block's level-2 heading, "" if none         *)
(*   display       css('display')                                          *)
(*   textLen       text().trim().length                                    *)
(*   primary       first 'div.yuRUbf > a[href], a[jsname="UWckNb"][href]': *)
(*                 its href and the trimmed text of its first heading      *)
(*   generic       first 'a[href]': its href and the text of its first h3  *)
(*   blockHeading  trimmed text of the block's first h3 / level-3 heading  *)
(*   snippetBox    trimmed text of the first snippet container, "" if none *)
(***************************************************************************)
MAX_RESULTS == 10
MIN_BLOCK_TEXT == 50
MIN_SPAN_TEXT == 15
MAX_SNIPPET == 350
MIN_TITLE == 3
MIN_SNIPPET == 10

NoLink == [present |-> FALSE, href |-> "", heading |-> ""]
Link(href, heading) == [present |-> TRUE, href |-> href, heading |-> heading]

\* The conditions of the skip test, index.js 321-330, in the order of the
\* code (the two span texts of line 322 are listed apart).
AdFlags ==
    << "textAd", "spanAd", "spanSponsored", "adsRegion", "noSnippet", "accordion",
       "peopleAlsoAsk", "relatedSearches", "topStories", "videos", "displayNone" >>

AdFlagHolds(flag, el) ==
    CASE flag = "textAd"          -> el.inTextAd
      [] flag = "spanAd"          ->
            \E k \in 1..Len(el.spans) : Includes(el.spans[k].text, "Ad")
      [] flag = "spanSponsored"   ->
            \E k \in 1..Len(el.spans) : Includes(el.spans[k].text, "Sponsored")
      [] flag = "adsRegion"       -> el.adsRegion
      [] flag = "noSnippet"       -> el.noSnippet
      [] flag = "accordion"       -> el.accordion
      [] flag = "peopleAlsoAsk"   -> Includes(el.heading2, "People also ask")
      [] flag = "relatedSearches" -> Includes(el.heading2, "Related searches")
      [] flag = "topStories"      -> Includes(el.heading2, "Top stories")
      [] flag = "videos"          -> Includes(el.heading2, "Videos")
      [] flag = "displayNone"     -> el.display = "none"

\* A plausible slip: the hidden-element test is forgotten.
IsAdOrSpecialNoDisplay(el) ==
    \E k \in 1..(Len(AdFlags) - 1) : AdFlagHolds(AdFlags[k], el)

\* if (closest(...) || find(...) || ... || css('display') === 'none') return;
IsAdOrSpecial(el) ==
    \E k \in 1..Len(AdFlags) : AdFlagHolds(AdFlags[k], el)

\* A plausible slip: only blocks with no text at all are skipped.
IsTooShortEmptyOnly(el) == el.textLen = 0

\* if (resultElement.text().trim().length < 50) return;
IsTooShort(el) == el.textLen < MIN_BLOCK_TEXT

\* index.js 348-366: the link and the title. found = FALSE is the early
\* return of line 364.
LinkAndTitle(el) ==
    IF el.primary.present
    THEN [found |-> TRUE, url |-> el.primary.href, title |-> el.primary.heading]
    ELSE IF el.generic.present
    THEN [found |-> TRUE, url |-> el.generic.href,
          title |-> IF el.generic.heading # "" THEN el.generic.heading
                    ELSE el.blockHeading]
    ELSE [found |-> FALSE, url |-> "", title |-> ""]

\* The denylist of index.js 376-383.
Denylist ==
    { "google.com/search?", "google.com/imgres", "google.com/maps",
      "google.com/preferences", "accounts.google.com",
      "support.google.com/websearch/answer", "policies.google.com",
      "webcache.googleusercontent.com" }

\* A plausible slip: the duplicate test is forgotten.
UrlRejectedNoDedup(url, seen) ==
    \/ url = ""
    \/ ~StartsWith(url, "http")
    \/ \E d \in Denylist : Includes(url, d)

\* index.js 375-385: the test that drops the block.
UrlRejected(url, seen) ==
    \/ url = ""
    \/ ~StartsWith(url, "http")
    \/ \E d \in Denylist : Includes(url, d)
    \/ url \in seen

\* index.js 396-402: the text of the spans outside the title/link structure
\* that are longer than 15 characters, each followed by a space.
RECURSIVE PotentialSnippetText(_)
PotentialSnippetText(spans) ==
    IF spans = <<>> THEN ""
    ELSE (IF ~Head(spans).inLink /\ Len(Trim(Head(spans).text)) > MIN_SPAN_TEXT
          THEN Trim(Head(spans).text) \o " " ELSE "")
         \o PotentialSnippetText(Tail(spans))

\* index.js 391-404
Snippet(el) ==
    IF el.snippetBox # "" THEN el.snippetBox
    ELSE Substring(Trim(PotentialSnippetText(el.spans)), 0, MAX_SNIPPET)

\* if (title && url && title.length > 3 && snippet.length > 10)
\* A plausible slip: the gate tests only that title and url are there.
AcceptanceGateNoLengths(title, url, snippet) == title # "" /\ url # ""

AcceptanceGate(title, url, snippet) ==
    title # "" /\ url # "" /\ Len(title) > MIN_TITLE /\ Len(snippet) > MIN_SNIPPET

ExtractedResult(title, url, snippet) ==
    [title |-> title, url |-> url, snippet |-> snippet,
     source |-> "Bright Data SERP (Cheerio)"]

\* A plausible slip: the new result is put in front (unshift for push).
PushResultInFront(rs, r) == <<r>> \o rs

\* results.push({...}), index.js 408
PushResult(rs, r) == Append(rs, r)

\* A plausible slip: the cap test of line 316 is forgotten.
EachCallbackNoCap(st, el) ==
    IF IsAdOrSpecial(el) \/ IsTooShort(el) THEN [st EXCEPT !.pushedNow = FALSE]
    ELSE LET lt      == LinkAndTitle(el)
             url     == UnwrapRedirect(lt.url)
             snippet == Snippet(el)
         IN  IF lt.found /\ ~UrlRejected(url, st.seenUrls)
                /\ AcceptanceGate(lt.title, url, snippet)
             THEN [results   |-> PushResult(st.results,
                                            ExtractedResult(lt.title, url, snippet)),
                   seenUrls  |-> st.seenUrls \cup {url},
                   stop      |-> FALSE,
                   pushedNow |-> TRUE]
             ELSE [st EXCEPT !.pushedNow = FALSE]

\* A plausible slip: seenUrls.add(url) stands right after the URL validation,
\* before the acceptance gate.
EachCallbackSeenBeforeGate(st, el) ==
    IF Len(st.results) >= MAX_RESULTS
    THEN [st EXCEPT !.stop = TRUE, !.pushedNow = FALSE]
    ELSE IF IsAdOrSpecial(el) \/ IsTooShort(el) THEN [st EXCEPT !.pushedNow = FALSE]
    ELSE LET lt      == LinkAndTitle(el)
             url     == UnwrapRedirect(lt.url)
             snippet == Snippet(el)
         IN  IF ~lt.found \/ UrlRejected(url, st.seenUrls)
             THEN [st EXCEPT !.pushedNow = FALSE]
             ELSE IF AcceptanceGate(lt.title, url, snippet)
             THEN [results   |-> PushResult(st.results,
                                            ExtractedResult(lt.title, url, snippet)),
                   seenUrls  |-> st.seenUrls \cup {url},
                   stop      |-> FALSE,
                   pushedNow |-> TRUE]
             ELSE [st EXCEPT !.seenUrls = @ \cup {url}, !.pushedNow = FALSE]

\* The callback of resultBlocks.each, index.js 315-418, on the loop state
\* st = [results, seenUrls, stop, pushedNow]: stop is the `return false` of
\* line 316, pushedNow tells whether this call reached results.push.
EachCallback(st, el) ==
    IF Len(st.results) >= MAX_RESULTS
    THEN [st EXCEPT !.stop = TRUE, !.pushedNow = FALSE]
    ELSE IF IsAdOrSpecial(el) THEN [st EXCEPT !.pushedNow = FALSE]
    ELSE IF IsTooShort(el) THEN [st EXCEPT !.pushedNow = FALSE]
    ELSE LET lt      == LinkAndTitle(el)
             url     == UnwrapRedirect(lt.url)
             snippet == Snippet(el)
         IN  IF ~lt.found THEN [st EXCEPT !.pushedNow = FALSE]
             ELSE IF UrlRejected(url, st.seenUrls) THEN [st EXCEPT !.pushedNow = FALSE]
             ELSE IF AcceptanceGate(lt.title, url, snippet)
             THEN [results   |-> PushResult(st.results,
                                            ExtractedResult(lt.title, url, snippet)),
                   seenUrls  |-> st.seenUrls \cup {url},
                   stop      |-> FALSE,
                   pushedNow |-> TRUE]
             ELSE [st EXCEPT !.pushedNow = FALSE]

LoopStart == [results |-> <<>>, seenUrls |-> {}, stop |-> FALSE, pushedNow |-> FALSE]

\* resultBlocks.each(...): the callback on each block in order, until it
\* returns false.
RECURSIVE EachLoop(_, _)
EachLoop(st, blocks) ==
    IF blocks = <<>> THEN st
    ELSE LET nx == EachCallback(st, Head(blocks))
         IN  IF nx.stop THEN nx ELSE EachLoop(nx, Tail(blocks))

SearchUrl(q) == "https://www.google.com/search?q=" \o EncodeURIComponent(q)

\* index.js 298-303
LoadErrorResult(q) ==
    << [title   |-> "Error parsing HTML for \"" \o q \o "\"",
        url     |-> SearchUrl(q),
        snippet |-> "Internal proxy error: Cheerio could not load the HTML content from Bright Data.",
        source  |-> "Bright Data SERP (Cheerio Load Error)"] >>

\* index.js 424-429
FallbackResult(q) ==
    << [title   |-> "No organic results found for \"" \o q \o "\"",
        url     |-> SearchUrl(q),
        snippet |-> "Could not extract organic search results. Google's HTML structure might have changed or no relevant results were found.",
        source  |-> "Bright Data SERP (Cheerio Fallback)"] >>

\* A plausible slip: the fallback of lines 422-432 is left out.
FinalResultsNoFallback(res, q) == res

\* index.js 422-435: what the function returns after the loop.
FinalResults(res, q) == IF Len(res) = 0 THEN FallbackResult(q) ELSE res

Return(v) == [kind |-> "return", value |-> v]
Throw(name) == [kind |-> "throw", value |-> name]

\* A plausible slip: cheerio.load is called outside a try, so its throwing
\* leaves the function.
ParseLoadUncaught(doc, q) ==
    IF ~doc.isString THEN Throw("TypeError")
    ELSE IF doc.empty THEN Return(<<>>)
    ELSE IF doc.loadThrows THEN Throw("Error")
    ELSE Return(FinalResults(EachLoop(LoopStart, doc.blocks).results, q))

\* The function as a whole. html.substring of line 286 is evaluated before
\* the test of line 287, so a value that is no string throws a TypeError.
ParseGoogleHTMLWithCheerio(doc, q) ==
    IF ~doc.isString THEN Throw("TypeError")
    ELSE IF doc.empty THEN Return(<<>>)
    ELSE IF doc.loadThrows THEN Return(LoadErrorResult(q))
    ELSE Return(FinalResults(EachLoop(LoopStart, doc.blocks).results, q))


(***************************************************************************)
(* Inputs of the model                                                     *)
(***************************************************************************)
MaxPieces == 3
MaxBlocks == 2
MaxCore == 3

RECURSIVE Repeat(_, _)
Repeat(s, n) ==
    IF n = 0 THEN ""
    ELSE LET half == Repeat(s, n \div 2)
         IN  IF n % 2 = 0 THEN half \o half ELSE half \o half \o s

\* An organic result block with its link in the primary structure.
Organic(href) ==
    [inTextAd |-> FALSE, spans |-> <<>>, adsRegion |-> FALSE, noSnippet |-> FALSE,
     accordion |-> FALSE, heading2 |-> "", display |-> "block", textLen |-> 120,
     primary |-> Link(href, "Rust book"), generic |-> Link(href, "Rust book"),
     blockHeading |-> "Rust book",
     snippetBox |-> "A language empowering everyone."]

Span(text, inLink) == [text |-> text, inLink |-> inLink]

\* One block per condition of the skip test; each has the title, link and
\* snippet of an organic result, and a URL no other block has.
AdBlock(flag) ==
    LET b == Organic("http://ad.co/" \o flag) IN
    CASE flag = "textAd"          -> [b EXCEPT !.inTextAd = TRUE]
      [] flag = "spanAd"          -> [b EXCEPT !.spans = <<Span("Ad", FALSE)>>]
      [] flag = "spanSponsored"   -> [b EXCEPT !.spans = <<Span("Sponsored", FALSE)>>]
      [] flag = "adsRegion"       -> [b EXCEPT !.adsRegion = TRUE]
      [] flag = "noSnippet"       -> [b EXCEPT !.noSnippet = TRUE]
      [] flag = "accordion"       -> [b EXCEPT !.accordion = TRUE]
      [] flag = "peopleAlsoAsk"   -> [b EXCEPT !.heading2 = "People also ask"]
      [] flag = "relatedSearches" -> [b EXCEPT !.heading2 = "Related searches"]
      [] flag = "topStories"      -> [b EXCEPT !.heading2 = "Top stories"]
      [] flag = "videos"          -> [b EXCEPT !.heading2 = "Videos"]
      [] flag = "displayNone"     -> [b EXCEPT !.display = "none"]

AdBlocks == { AdBlock(AdFlags[k]) : k \in 1..Len(AdFlags) }

UrlA == "http://a.co"
UrlB == "https://b.co/x"

\* Blocks that differ from an organic block in one of the values read.
OtherBlocks ==
    { Organic("/url?q=http://a.co&sa=U"),
      Organic("/url?q=https%3A%2F%2Fc.co%2Fx%3Fy%3D1&sa=U"),
      Organic("/url?q=&sa=U"),
      Organic("/rel/page"),
      Organic(""),
      Organic("ftp://f.co"),
      Organic("http-guide.html"),
      Organic("https://www.google.com/search?q=rust"),
      Organic("https://accounts.google.com/signin"),
      [Organic("http://t.co") EXCEPT !.textLen = 49],
      [Organic("http://t.co") EXCEPT !.textLen = 50],
      [Organic("http://n.co") EXCEPT !.primary = NoLink, !.generic = NoLink],
      [Organic("http://g.co") EXCEPT !.primary = NoLink],
      [Organic("http://g.co") EXCEPT !.primary = NoLink,
                                     !.generic = Link("http://g.co", "")],
      [Organic("http://g.co") EXCEPT !.primary = NoLink,
                                     !.generic = Link("http://g.co", ""),
                                     !.blockHeading = ""],
      [Organic("http://p.co") EXCEPT !.primary = Link("http://p.co", "")],
      [Organic("http://p.co") EXCEPT !.primary = Link("http://p.co", ""),
                                     !.generic = Link("http://p.co", "")],
      [Organic(UrlA) EXCEPT !.primary = Link(UrlA, "abc")],
      [Organic(UrlA) EXCEPT !.primary = Link(UrlA, "Rust")],
      [Organic(UrlB) EXCEPT !.snippetBox = "0123456789"],
      [Organic(UrlB) EXCEPT !.snippetBox = "0123456789a"],
      [Organic("http://s.co") EXCEPT
          !.snippetBox = "",
          !.spans = <<Span("in the link text, long enough", TRUE),
                      Span("fifteen chars !", FALSE),
                      Span("A span of sixteen", FALSE),
                      Span("and one more of them", FALSE)>>],
      [Organic("http://s.co") EXCEPT
          !.snippetBox = "",
          !.spans = <<Span("in the link text, long enough", TRUE)>>],
      [Organic("http://l.co") EXCEPT
          !.snippetBox = "",
          !.spans = <<Span(Repeat("x", 200), FALSE), Span(Repeat("y", 200), FALSE)>>],
      [Organic("http://m.co") EXCEPT !.spans = <<Span("Advanced topics", FALSE)>>] }

BlockKinds == {Organic(UrlA), Organic(UrlB)} \cup AdBlocks \cup OtherBlocks

\* The blocks of the longer documents: two organic results, a link to the
\* first through the redirect wrapper, an ad, and a block with the first
\* URL that the acceptance gate drops.
CoreBlocks ==
    { Organic(UrlA), Organic(UrlB), Organic("/url?q=http://a.co&sa=U"),
      AdBlock("spanAd"), [Organic(UrlA) EXCEPT !.primary = Link(UrlA, "abc")] }

RECURSIVE SeqsUpTo(_, _)
SeqsUpTo(S, n) ==
    IF n = 0 THEN {<<>>}
    ELSE LET shorter == SeqsUpTo(S, n - 1)
         IN  shorter \cup { Append(d, b) : d \in shorter, b \in S }

\* MAX_RESULTS organic blocks with pairwise distinct URLs.
FreshRun ==
    [k \in 1..MAX_RESULTS |->
        Organic("http://r.co/" \o SubSeq("abcdefghijklmnop", k, k))]

BlockSeqs ==
    SeqsUpTo(BlockKinds, MaxBlocks) \cup SeqsUpTo(CoreBlocks, MaxCore)
    \cup { d \o FreshRun : d \in SeqsUpTo(CoreBlocks, MaxCore) }
    \cup { FreshRun \o d : d \in SeqsUpTo(CoreBlocks, MaxCore) }

Markup(blocks) ==
    [isString |-> TRUE, empty |-> FALSE, loadThrows |-> FALSE, blocks |-> blocks]

HtmlNotString == [isString |-> FALSE, empty |-> FALSE, loadThrows |-> FALSE, blocks |-> <<>>]
HtmlEmpty     == [isString |-> TRUE, empty |-> TRUE, loadThrows |-> FALSE, blocks |-> <<>>]
HtmlUnloadable == [isString |-> TRUE, empty |-> FALSE, loadThrows |-> TRUE, blocks |-> <<>>]

HtmlInputs ==
    {HtmlNotString, HtmlEmpty, HtmlUnloadable} \cup { Markup(d) : d \in BlockSeqs }

Queries == {"rust programming", "zzz_no_such_thing_123", "a b&c"}

\* The queries a document is parsed for: every query for the documents of at
\* most one block, one query for the longer ones.
QueriesFor(doc) == IF Len(doc.blocks) <= 1 THEN Queries ELSE {"rust programming"}

Pieces ==
    { "/url?q=", "%2Furl%3Fq%3D", "http://a.co", "http%3A%2F%2Fa.co", "&sa=U",
      "/rel", "?x=1", "q=", "%252F" }

RECURSIVE Concat(_)
Concat(ps) == IF ps = <<>> THEN "" ELSE Head(ps) \o Concat(Tail(ps))

Hrefs == { Concat(ps) : ps \in SeqsUpTo(Pieces, MaxPieces) }

(***************************************************************************)
(* SpecUnwrap: the unwrap step applied to an href, then to its own result  *)
(***************************************************************************)
InitUnwrap ==
    /\ h \in Hrefs
    /\ once = "" /\ twice = "" /\ upc = "start"
    /\ html = HtmlEmpty /\ query = "" /\ idx = 0 /\ results = <<>>
    /\ seenUrls = {} /\ ppc = "idle" /\ ret = Return(<<>>) /\ pushed = <<>>
    /\ apiToken = "" /\ req = <<>>

UnwrapOnce ==
    /\ upc = "start"
    /\ once' = UnwrapRedirect(h)
    /\ upc' = "once"
    /\ UNCHANGED <<h, twice, pvars, svars>>

UnwrapAgain ==
    /\ upc = "once"
    /\ twice' = UnwrapRedirect(once)
    /\ upc' = "twice"
    /\ UNCHANGED <<h, once, pvars, svars>>

NextUnwrap == UnwrapOnce \/ UnwrapAgain

SpecUnwrap == InitUnwrap /\ [][NextUnwrap]_vars

\* C7 as stated: for every href h, unwrap(unwrap(h)) = unwrap(h).
C7_UnwrapIdempotent == upc = "twice" => twice = once

\* C7 amended: unwrap(unwrap(h)) = unwrap(h) for every href h whose unwrapped
\* value does not itself begin with the wrapper prefix '/url?q='.
C7_UnwrapIdempotentUnlessNested ==
    (upc = "twice" /\ ~StartsWith(once, "/url?q=")) => twice = once

\* A wrapped href was unwrapped to an absolute URL and unwrapped again.
C7_Witness ==
    /\ upc = "twice"
    /\ StartsWith(h, "/url?q=")
    /\ once # h
    /\ StartsWith(once, "http")


(***************************************************************************)
(* SpecParse: one call of parseGoogleHTMLWithCheerio(html, query), the     *)
(* callback of resultBlocks.each taken one block per step. idx counts the  *)
(* blocks the callback was called on; pushed lists, in order, the          *)
(* positions of the blocks whose call reached results.push.                *)
(***************************************************************************)
InitParse ==
    /\ html \in HtmlInputs
    /\ query \in QueriesFor(html)
    /\ idx = 0 /\ results = <<>> /\ seenUrls = {} /\ pushed = <<>>
    /\ ppc = "call" /\ ret = Return(<<>>)
    /\ h = "" /\ once = "" /\ twice = "" /\ upc = "idle"
    /\ apiToken = "" /\ req = <<>>

\* index.js 286-290: html is not a string (line 286 throws), or is empty.
ParseRejectsInput ==
    /\ ppc = "call"
    /\ ~html.isString \/ html.empty
    /\ ret' = ParseGoogleHTMLWithCheerio(html, query)
    /\ ppc' = "done"
    /\ UNCHANGED <<html, query, idx, results, seenUrls, pushed, uvars, svars>>

\* index.js 292-304: cheerio.load throws.
ParseLoadFails ==
    /\ ppc = "call"
    /\ html.isString /\ ~html.empty /\ html.loadThrows
    /\ ret' = Return(LoadErrorResult(query))
    /\ ppc' = "done"
    /\ UNCHANGED <<html, query, idx, results, seenUrls, pushed, uvars, svars>>

\* index.js 306-311: the document is loaded and the blocks are selected.
ParseLoads ==
    /\ ppc = "call"
    /\ html.isString /\ ~html.empty /\ ~html.loadThrows
    /\ results' = LoopStart.results
    /\ seenUrls' = LoopStart.seenUrls
    /\ idx' = 0
    /\ ppc' = "loop"
    /\ UNCHANGED <<html, query, ret, pushed, uvars, svars>>

\* index.js 315-418: the callback on the next block.
EachIteration ==
    /\ ppc = "loop"
    /\ idx < Len(html.blocks)
    /\ LET st == [results |-> results, seenUrls |-> seenUrls, stop |-> FALSE,
                  pushedNow |-> FALSE]
           nx == EachCallback(st, html.blocks[idx + 1])
       IN  /\ results' = nx.results
           /\ seenUrls' = nx.seenUrls
           /\ idx' = idx + 1
           /\ pushed' = IF nx.pushedNow THEN Append(pushed, idx + 1) ELSE pushed
           /\ ppc' = IF nx.stop THEN "after" ELSE "loop"
    /\ UNCHANGED <<html, query, ret, uvars, svars>>

\* each() has called the callback on every block.
EachExhausted ==
    /\ ppc = "loop"
    /\ idx = Len(html.blocks)
    /\ ppc' = "after"
    /\ UNCHANGED <<html, query, idx, results, seenUrls, ret, pushed, uvars, svars>>

\* index.js 422-435
ParseReturns ==
    /\ ppc = "after"
    /\ ret' = Return(FinalResults(results, query))
    /\ ppc' = "done"
    /\ UNCHANGED <<html, query, idx, results, seenUrls, pushed, uvars, svars>>

NextParse ==
    \/ ParseRejectsInput
    \/ ParseLoadFails
    \/ ParseLoads
    \/ EachIteration
    \/ EachExhausted
    \/ ParseReturns

SpecParse == InitParse /\ [][NextParse]_vars

PairwiseDistinctUrls(rs) ==
    \A i, j \in 1..Len(rs) : i # j => rs[i].url # rs[j].url

\* The step-by-step run returns what the function, taken as a whole, returns.
StepwiseAgrees == ppc = "done" => ret = ParseGoogleHTMLWithCheerio(html, query)

\* C1: in every state of a call (after every iteration of the candidate loop,
\* and in the list returned) the results are at most 10 and their urls, taken
\* after unwrapping, are pairwise distinct.
C1_BoundedDistinct ==
    /\ Len(results) <= 10
    /\ PairwiseDistinctUrls(results)
    /\ (ppc = "done" /\ ret.kind = "return") =>
          (Len(ret.value) <= 10 /\ PairwiseDistinctUrls(ret.value))

\* Ten results were returned from a document of more than ten blocks, one of
\* which was dropped because its unwrapped URL had been accepted before.
C1_Witness ==
    /\ ppc = "done"
    /\ Len(ret.value) = 10
    /\ Len(html.blocks) > 10
    /\ \E i \in 1..Len(html.blocks) :
          \E j \in 1..Len(pushed) :
              /\ pushed[j] < i
              /\ ~html.blocks[i].inTextAd
              /\ html.blocks[i].spans = <<>>
              /\ html.blocks[i].primary.href # html.blocks[pushed[j]].primary.href
              /\ UnwrapRedirect(html.blocks[i].primary.href)
                    = html.blocks[pushed[j]].primary.href

\* C2 as stated, in its last clause: whatever the input, the function never
\* returns an empty array.
C2_NeverEmpty == (ppc = "done" /\ ret.kind = "return") => Len(ret.value) >= 1


(***************************************************************************)
(* The search routes, index.js 71-281                                      *)
(*                                                                         *)
(* A query value is a JavaScript value: its typeof, its string when it is  *)
(* one, whether it is falsy, and whether String(value) returns (it throws  *)
(* a TypeError for an object whose own toString is not callable, such as   *)
(* the parsed JSON {"toString": 1}).                                       *)
(***************************************************************************)
QueryValue(type, str, falsy, stringifies) ==
    [type |-> type, str |-> str, falsy |-> falsy, stringifies |-> stringifies]

QString(str) == QueryValue("string", str, str = "", TRUE)
QUndefined   == QueryValue("undefined", "", TRUE, TRUE)
QNumber      == QueryValue("number", "", FALSE, TRUE)
QZero        == QueryValue("number", "", TRUE, TRUE)
QArray       == QueryValue("object", "", FALSE, TRUE)
QObject      == QueryValue("object", "", FALSE, TRUE)
QOddObject   == QueryValue("object", "", FALSE, FALSE)

ValidQueries == { QString("rust programming"), QString(" a b&c ") }

\* What express.json() can put in req.body.query.
PostQueryValues ==
    ValidQueries \cup
    { QUndefined, QString(""), QString("   "), QNumber, QZero, QArray, QOddObject }

\* What the query-string parser can put in req.query.query.
GetQueryValues ==
    ValidQueries \cup { QUndefined, QString(""), QString("   "), QArray, QObject }

\* num, hl, gl as they reach the template literal.
Params(num, hl, gl) == [num |-> num, hl |-> hl, gl |-> gl]
DefaultParams == Params("10", "en", "us")
ParamValues == { DefaultParams, Params("5&start=20", "de", "at") }

\* !query || typeof query !== 'string' || query.trim().length === 0
InvalidQuery(q) == q.falsy \/ q.type # "string" \/ Len(Trim(q.str)) = 0

\* index.js 111: only the query is encoded.
PostSearchUrl(q, p) ==
    "https://www.google.com/search?q=" \o EncodeURIComponent(q)
        \o "&num=" \o p.num \o "&hl=" \o p.hl \o "&gl=" \o p.gl

\* index.js 214
GetSearchUrl(q, p) ==
    "https://www.google.com/search?q=" \o EncodeURIComponent(q)
        \o "&num=" \o EncodeURIComponent(p.num)
        \o "&hl=" \o EncodeURIComponent(p.hl)
        \o "&gl=" \o EncodeURIComponent(p.gl)

NoResponse ==
    [status |-> 0, success |-> FALSE, error |-> "", message |-> "", details |-> "",
     hasResults |-> FALSE, results |-> <<>>, totalResults |-> 0, source |-> ""]

\* res.status(status).json({ success: false, error, message, details })
ErrorResponse(status, error, message, details) ==
    [NoResponse EXCEPT !.status = status, !.error = error, !.message = message,
                       !.details = details]

\* index.js 88-95 and 194-199
InvalidQueryResponse(route) ==
    ErrorResponse(400, "Invalid query parameter",
                  IF route = "POST" THEN "Query must be a non-empty string."
                  ELSE "Query must be a non-empty string (from GET).", "")

\* index.js 101-105 and 205-209
ConfigErrorResponse(route) ==
    ErrorResponse(500, "Configuration error", "Bright Data API token not configured", "")

\* index.js 173-178 and 274-279
ProxyErrorResponse(route, message) ==
    ErrorResponse(500,
                  IF route = "POST" THEN "Proxy server error"
                  ELSE "Proxy server error (via GET->POST)",
                  IF message = "" THEN "Unknown error" ELSE message, "")

\* A plausible slip: the upstream body is passed on whole.
UpstreamErrorResponseWhole(route, errorText) ==
    ErrorResponse(502,
                  IF route = "POST" THEN "Bright Data API error"
                  ELSE "Bright Data API error (via GET->POST)",
                  "", errorText)

\* index.js 129-135 and 233-239
UpstreamErrorResponse(route, errorText) ==
    ErrorResponse(502,
                  IF route = "POST" THEN "Bright Data API error"
                  ELSE "Bright Data API error (via GET->POST)",
                  "", Substring(errorText, 0, 200))

RouteSource(route) ==
    IF route = "POST" THEN "Bright Data SERP" ELSE "Bright Data SERP (via GET->POST Proxy)"

\* index.js 148-155 and 249-256: the placeholder of the routes.
NoResultsPlaceholder(route, q) ==
    << [title   |-> IF route = "POST" THEN "No results for \"" \o q \o "\""
                    ELSE "No results for \\\"" \o q \o "\\\"",
        url     |-> SearchUrl(q),
        snippet |-> IF route = "POST"
                    THEN "No search results were found. Try using different keywords or check your search terms."
                    ELSE "No search results were found. Try using different keywords.",
        source  |-> RouteSource(route)] >>

\* A plausible slip: totalResults is the number asked for, not the number
\* returned.
OkResponseFixedTotal(route, rs) ==
    [NoResponse EXCEPT !.status = 200, !.success = TRUE, !.hasResults = TRUE,
                       !.results = rs, !.totalResults = MAX_RESULTS,
                       !.source = RouteSource(route)]

OkResponse(route, rs) ==
    [NoResponse EXCEPT !.status = 200, !.success = TRUE, !.hasResults = TRUE,
                       !.results = rs, !.totalResults = Len(rs),
                       !.source = RouteSource(route)]

\* A plausible slip: the empty-list test of lines 144 and 245 is left out.
SuccessResponsePassThrough(route, q, rs) == OkResponse(route, rs)

\* index.js 144-169 and 245-270
SuccessResponse(route, q, rs) ==
    IF Len(rs) = 0
    THEN [OkResponse(route, NoResultsPlaceholder(route, q)) EXCEPT !.totalResults = 1]
    ELSE OkResponse(route, rs)

(***************************************************************************)
(* Spec: the requests in flight. A handler runs from one await to the      *)
(* next in one step; pc is where it is suspended:                          *)
(*   idle         no request in this slot                                  *)
(*   fetching     awaiting fetch(BRIGHT_DATA_CONFIG.apiUrl, ...)           *)
(*   readingError awaiting brightDataResponse.text() after !ok             *)
(*   readingBody  awaiting brightDataResponse.text() after ok              *)
(*   responded    the handler has returned                                 *)
(* fetches, parses and responses count the upstream calls issued, the      *)
(* calls of parseGoogleHTMLWithCheerio and the responses sent for the      *)
(* request; parseRet is what the last call of the parser returned;         *)
(* bodyRead tells how the await of text() ended and errorText is the text  *)
(* it gave after a status that is not ok. stages lists the stages of the   *)
(* request in the order it entered them:                                   *)
(*   Received       the handler is entered (lines 71-76, 183-190)          *)
(*   Validated      the query and the configuration are being checked      *)
(*                  (lines 77-106, 192-210)                                *)
(*   UpstreamCalled the upstream request is sent and its answer awaited    *)
(*                  (lines 108-138, 212-242)                               *)
(*   Extracted      the parser is called (lines 141, 243)                  *)
(*   Responded      a response is sent                                     *)
(***************************************************************************)
Requests == {"r1", "r2"}
Routes == {"POST", "GET"}

IdleRequest ==
    [pc |-> "idle", route |-> "POST", query |-> QUndefined, params |-> DefaultParams,
     upstreamUrl |-> "", upstreamStatus |-> 0, bodyRead |-> "none",
     errorText |-> "", body |-> HtmlEmpty,
     fetches |-> 0, parses |-> 0, parseRet |-> Return(<<>>),
     responses |-> 0, response |-> NoResponse, stages |-> <<>>]

UpstreamStatuses == {200, 503}

\* response.ok
StatusOk(status) == status >= 200 /\ status <= 299

ErrorTexts ==
    { "", "Service Unavailable", Repeat("e", 199) \o "X", Repeat("e", 200) \o "X",
      Repeat("e", 200) \o Repeat("f", 60) }

\* The bodies of a successful upstream response: always a string.
Bodies ==
    { HtmlEmpty, HtmlUnloadable, Markup(<<>>), Markup(<<AdBlock("textAd")>>),
      Markup(<<[Organic(UrlA) EXCEPT !.primary = Link(UrlA, "abc")]>>),
      Markup(<<Organic(UrlA), AdBlock("spanAd"), Organic(UrlB)>>),
      Markup(FreshRun \o <<Organic(UrlA)>>) }

Tokens == {"", "token"}

Init ==
    /\ apiToken \in Tokens
    /\ req = [r \in Requests |-> IdleRequest]
    /\ h = "" /\ once = "" /\ twice = "" /\ upc = "idle"
    /\ html = HtmlEmpty /\ query = "" /\ idx = 0 /\ results = <<>>
    /\ seenUrls = {} /\ ppc = "idle" /\ ret = Return(<<>>) /\ pushed = <<>>

Stage(rq, name) == [rq EXCEPT !.stages = Append(@, name)]

Respond(rq, response) ==
    [rq EXCEPT !.pc = "responded", !.responses = @ + 1, !.response = response,
               !.stages = Append(@, "Responded")]

\* index.js 108-124 and 212-228: the upstream request is built and sent.
CallUpstream(rq, url) ==
    [rq EXCEPT !.pc = "fetching", !.fetches = @ + 1, !.upstreamUrl = url,
               !.stages = Append(@, "UpstreamCalled")]

\* A plausible slip: the `return` before res.status(400) is forgotten, so the
\* handler goes on after answering an invalid query.
PostHandlerNoReturn(rq, token) ==
    LET v == Stage(Stage(rq, "Received"), "Validated") IN
    IF ~rq.query.stringifies
    THEN Respond(v, ProxyErrorResponse("POST", "Cannot convert object to primitive value"))
    ELSE IF InvalidQuery(rq.query)
    THEN CallUpstream(Respond(v, InvalidQueryResponse("POST")),
                      PostSearchUrl(rq.query.str, rq.params))
    ELSE IF token = "" THEN Respond(v, ConfigErrorResponse("POST"))
    ELSE CallUpstream(v, PostSearchUrl(rq.query.str, rq.params))

\* app.post('/api/brightdata'), index.js 71-124, up to the await of fetch.
\* String(query) of line 82 is inside the try: when it throws, the catch of
\* line 171 answers.
PostHandler(rq, token) ==
    LET v == Stage(Stage(rq, "Received"), "Validated") IN
    IF ~rq.query.stringifies
    THEN Respond(v, ProxyErrorResponse("POST", "Cannot convert object to primitive value"))
    ELSE IF InvalidQuery(rq.query) THEN Respond(v, InvalidQueryResponse("POST"))
    ELSE IF token = "" THEN Respond(v, ConfigErrorResponse("POST"))
    ELSE CallUpstream(v, PostSearchUrl(rq.query.str, rq.params))

\* A plausible slip: the token is not tested before the upstream call.
GetHandlerNoTokenTest(rq, token) ==
    LET v == Stage(Stage(rq, "Received"), "Validated") IN
    IF InvalidQuery(rq.query) THEN Respond(v, InvalidQueryResponse("GET"))
    ELSE CallUpstream(v, GetSearchUrl(rq.query.str, rq.params))

\* app.get('/api/brightdataget'), index.js 183-228, up to the await of fetch.
GetHandler(rq, token) ==
    LET v == Stage(Stage(rq, "Received"), "Validated") IN
    IF InvalidQuery(rq.query) THEN Respond(v, InvalidQueryResponse("GET"))
    ELSE IF token = "" THEN Respond(v, ConfigErrorResponse("GET"))
    ELSE CallUpstream(v, GetSearchUrl(rq.query.str, rq.params))

PostBrightdata(r) ==
    /\ req[r].pc = "idle"
    /\ \E q \in PostQueryValues, p \in ParamValues :
          req' = [req EXCEPT
                    ![r] = PostHandler([IdleRequest EXCEPT !.route = "POST",
                                                           !.query = q, !.params = p],
                                       apiToken)]
    /\ UNCHANGED <<apiToken, uvars, pvars>>

GetBrightdataget(r) ==
    /\ req[r].pc = "idle"
    /\ \E q \in GetQueryValues, p \in ParamValues :
          req' = [req EXCEPT
                    ![r] = GetHandler([IdleRequest EXCEPT !.route = "GET",
                                                          !.query = q, !.params = p],
                                      apiToken)]
    /\ UNCHANGED <<apiToken, uvars, pvars>>

\* The fetch promise is fulfilled: the handler goes on to await text(),
\* index.js 126-127 / 138 and 230-231 / 242.
FetchResolves(r) ==
    /\ req[r].pc = "fetching"
    /\ \E status \in UpstreamStatuses :
          req' = [req EXCEPT ![r].upstreamStatus = status,
                             ![r].pc = IF StatusOk(status) THEN "readingBody"
                                       ELSE "readingError"]
    /\ UNCHANGED <<apiToken, uvars, pvars>>

\* A plausible slip: a rejected fetch is tried once more before giving up.
FetchRejectsRetrying(r) ==
    /\ req[r].pc = "fetching"
    /\ req' = [req EXCEPT
                ![r] = IF @.fetches < 2 THEN CallUpstream(@, @.upstreamUrl)
                       ELSE Respond(@, ProxyErrorResponse(@.route, "fetch failed"))]
    /\ UNCHANGED <<apiToken, uvars, pvars>>

\* The fetch promise is rejected: the catch of lines 171 / 272 answers.
FetchRejects(r) ==
    /\ req[r].pc = "fetching"
    /\ req' = [req EXCEPT ![r] = Respond(@, ProxyErrorResponse(@.route, "fetch failed"))]
    /\ UNCHANGED <<apiToken, uvars, pvars>>

\* text() is fulfilled after a status that is not ok, index.js 127-136, 231-240.
ErrorTextResolves(r) ==
    /\ req[r].pc = "readingError"
    /\ \E errorText \in ErrorTexts :
          req' = [req EXCEPT
                    ![r] = Respond([@ EXCEPT !.bodyRead = "ok", !.errorText = errorText],
                                   UpstreamErrorResponse(@.route, errorText))]
    /\ UNCHANGED <<apiToken, uvars, pvars>>

\* A plausible slip: seenUrls is declared at module level, so the urls
\* collected for the requests answered before suppress those of this one.
AfterBodySharedSeen(rq, body) ==
    LET out    == ParseGoogleHTMLWithCheerio(body, rq.query.str)
        seen   == UNION { { req[o].parseRet.value[i].url :
                              i \in DOMAIN req[o].parseRet.value } :
                          o \in { x \in Requests : req[x].parseRet.kind = "return" } }
        kept   == IF out.kind = "return"
                  THEN Return(SelectSeq(out.value, LAMBDA e : e.url \notin seen))
                  ELSE out
        called == [rq EXCEPT !.bodyRead = "ok", !.body = body, !.parses = @ + 1,
                             !.parseRet = kept,
                             !.stages = Append(@, "Extracted")]
    IN  IF kept.kind = "throw"
        THEN Respond(called, ProxyErrorResponse(rq.route, kept.value))
        ELSE Respond(called, SuccessResponse(rq.route, rq.query.str, kept.value))

\* The rest of a handler once text() gave the body, index.js 138-169, 242-270.
\* The parser throwing is caught by the catch of lines 171 / 272.
AfterBody(rq, body) ==
    LET out    == ParseGoogleHTMLWithCheerio(body, rq.query.str)
        called == [rq EXCEPT !.bodyRead = "ok", !.body = body, !.parses = @ + 1,
                             !.parseRet = out,
                             !.stages = Append(@, "Extracted")]
    IN  IF out.kind = "throw"
        THEN Respond(called, ProxyErrorResponse(rq.route, out.value))
        ELSE Respond(called, SuccessResponse(rq.route, rq.query.str, out.value))

\* text() is fulfilled after an ok status.
BodyTextResolves(r) ==
    /\ req[r].pc = "readingBody"
    /\ \E body \in Bodies : req' = [req EXCEPT ![r] = AfterBody(@, body)]
    /\ UNCHANGED <<apiToken, uvars, pvars>>

\* A plausible slip: await text() stands outside the try, so its rejection
\* ends the handler with nothing sent.
TextRejectsUncaught(r) ==
    /\ req[r].pc \in {"readingError", "readingBody"}
    /\ req' = [req EXCEPT ![r] = [@ EXCEPT !.bodyRead = "failed", !.pc = "abandoned"]]
    /\ UNCHANGED <<apiToken, uvars, pvars>>

\* text() is rejected (the body stream fails): the catch answers.
TextRejects(r) ==
    /\ req[r].pc \in {"readingError", "readingBody"}
    /\ req' = [req EXCEPT
                ![r] = Respond([@ EXCEPT !.bodyRead = "failed"],
                               ProxyErrorResponse(@.route, "body read failed"))]
    /\ UNCHANGED <<apiToken, uvars, pvars>>

\* The request and its response are gone; the slot takes the next request.
RequestEnds(r) ==
    /\ req[r].pc = "responded"
    /\ req' = [req EXCEPT ![r] = IdleRequest]
    /\ UNCHANGED <<apiToken, uvars, pvars>>

Next ==
    \E r \in Requests :
        \/ PostBrightdata(r)
        \/ GetBrightdataget(r)
        \/ FetchResolves(r)
        \/ FetchRejects(r)
        \/ ErrorTextResolves(r)
        \/ BodyTextResolves(r)
        \/ TextRejects(r)
        \/ RequestEnds(r)

Spec == Init /\ [][Next]_vars

TypeOK ==
    \A r \in Requests :
        /\ req[r].pc \in {"idle", "fetching", "readingError", "readingBody", "responded"}
        /\ req[r].route \in Routes
        /\ req[r].responses \in {0, 1}


Responded(r) == req[r].pc = "responded"

\* The upstream answered with a status that is not a success status.
UpstreamFailed(r) == req[r].upstreamStatus # 0 /\ ~StatusOk(req[r].upstreamStatus)

\* C3 as stated: a request whose query is missing, empty, whitespace-only or
\* not a string is answered 400, on both routes, and no upstream call is
\* issued for it.
C3_InvalidQueryIs400 ==
    \A r \in Requests :
        (/\ req[r].pc # "idle"
         /\ \/ req[r].query.type # "string"
            \/ req[r].query.str = ""
            \/ Trim(req[r].query.str) = "")
        => /\ Responded(r)
           /\ req[r].response.status = 400
           /\ req[r].fetches = 0

\* The query is a string with a character that is not whitespace.
ValidQuery(r) == req[r].query.type = "string" /\ Trim(req[r].query.str) # ""

\* C4: with no API token, a request with a valid query is answered 500 with
\* the configuration-error payload on both routes, without an upstream call
\* and without a call of the parser; the server then takes further requests.
C4_MissingTokenIs500 ==
    \A r \in Requests :
        (req[r].pc # "idle" /\ apiToken = "" /\ ValidQuery(r))
        => /\ Responded(r)
           /\ req[r].response.status = 500
           /\ req[r].response.error = "Configuration error"
           /\ ~req[r].response.success
           /\ req[r].fetches = 0
           /\ req[r].parses = 0
           /\ ENABLED RequestEnds(r)
           /\ \A o \in Requests :
                 req[o].pc = "idle" => ENABLED PostBrightdata(o) /\ ENABLED GetBrightdataget(o)

\* Both routes have answered a valid query with the configuration error.
C4_Witness ==
    /\ apiToken = ""
    /\ \E r \in Requests :
          /\ Responded(r) /\ req[r].route = "POST" /\ ValidQuery(r)
          /\ req[r].response.error = "Configuration error"
    /\ \E r \in Requests :
          /\ Responded(r) /\ req[r].route = "GET" /\ ValidQuery(r)
          /\ req[r].response.error = "Configuration error"

\* C5 as stated: after an upstream status that is not a success status the
\* request ends with 502, details being at most 200 characters, and the
\* parser is not called.
C5_UpstreamFailureIs502 ==
    \A r \in Requests :
        (Responded(r) /\ UpstreamFailed(r))
        => /\ req[r].response.status = 502
           /\ Len(req[r].response.details) <= 200
           /\ req[r].parses = 0

\* C5 amended: after an upstream status that is not a success status the
\* parser is never called; when the upstream body is read the request ends
\* with 502 and details is the first 200 characters of that body (the whole
\* body when it is shorter); when reading the body fails it ends with 500.
C5_UpstreamFailureIs502IfBodyRead ==
    \A r \in Requests :
        UpstreamFailed(r)
        => /\ req[r].parses = 0
           /\ req[r].pc \in {"readingError", "responded"}
           /\ (Responded(r) /\ req[r].bodyRead = "ok") =>
                 /\ req[r].response.status = 502
                 /\ Len(req[r].response.details) <= 200
                 /\ req[r].response.details
                       = SubSeq(req[r].errorText, 1, Len(req[r].response.details))
                 /\ \/ Len(req[r].response.details) = 200
                    \/ req[r].response.details = req[r].errorText
           /\ (Responded(r) /\ req[r].bodyRead = "failed") =>
                 req[r].response.status = 500

\* An upstream body of more than 200 characters was cut to 200 in a 502.
C5_Witness ==
    \E r \in Requests :
        /\ Responded(r) /\ UpstreamFailed(r)
        /\ req[r].response.status = 502
        /\ Len(req[r].errorText) > 200
        /\ Len(req[r].response.details) = 200

\* C8: when the upstream succeeds with an empty body, the parser reports the
\* load failure (it returns no result), and the response is 200 with exactly
\* one placeholder result whose title holds the query, on both routes.
C8_EmptyBodyGivesPlaceholder ==
    \A r \in Requests :
        (/\ Responded(r)
         /\ StatusOk(req[r].upstreamStatus)
         /\ req[r].bodyRead = "ok"
         /\ req[r].body = HtmlEmpty)
        => /\ req[r].parses = 1
           /\ req[r].parseRet = Return(<<>>)
           /\ req[r].response.status = 200
           /\ req[r].response.hasResults
           /\ Len(req[r].response.results) = 1
           /\ Includes(req[r].response.results[1].title, req[r].query.str)
           /\ req[r].response.results[1].url
                 = "https://www.google.com/search?q="
                      \o EncodeURIComponent(req[r].query.str)

\* Both routes have answered 200 for an empty upstream body.
C8_Witness ==
    \A route \in Routes :
        \E r \in Requests :
            /\ Responded(r) /\ req[r].route = route
            /\ StatusOk(req[r].upstreamStatus)
            /\ req[r].bodyRead = "ok" /\ req[r].body = HtmlEmpty
            /\ req[r].response.status = 200


\* The blocks C6 is about, stated on the markup: nested in a data-text-ad
\* element, holding an Ad or Sponsored marker, an Ads region, a no-snippet
\* container, an accordion expander, one of the four headings, or hidden.
C6_Flagged(el) ==
    \/ el.inTextAd
    \/ \E k \in 1..Len(el.spans) :
          Includes(el.spans[k].text, "Ad") \/ Includes(el.spans[k].text, "Sponsored")
    \/ el.adsRegion \/ el.noSnippet \/ el.accordion
    \/ \E t \in {"People also ask", "Related searches", "Top stories", "Videos"} :
          Includes(el.heading2, t)
    \/ el.display = "none"

\* C6: no block flagged as an ad or special-feature container contributes an
\* entry: every entry of the result list was pushed by a block that is not
\* flagged, and the list returned holds those entries only.
C6_NoFlaggedBlockEmitted ==
    /\ Len(results) = Len(pushed)
    /\ \A k \in 1..Len(pushed) : ~C6_Flagged(html.blocks[pushed[k]])
    /\ (ppc = "done" /\ pushed # <<>>) => ret = Return(results)

\* A call has returned results from a document in which a hidden block with
\* the fields of an organic result came before a block that was emitted.
C6_Witness ==
    /\ ppc = "done"
    /\ \E i \in 1..Len(html.blocks) :
          /\ html.blocks[i].display = "none"
          /\ Len(html.blocks[i].primary.heading) > 3
          /\ Len(html.blocks[i].snippetBox) > 10
          /\ \E k \in 1..Len(pushed) : pushed[k] > i

\* A block that the classifier and the field extraction accept on its own.
C9_Passes(el) ==
    /\ ~C6_Flagged(el)
    /\ ~IsTooShort(el)
    /\ LinkAndTitle(el).found
    /\ ~UrlRejected(UnwrapRedirect(LinkAndTitle(el).url), {})
    /\ AcceptanceGate(LinkAndTitle(el).title, UnwrapRedirect(LinkAndTitle(el).url),
                      Snippet(el))

C9_NotFlagged(el) == ~C6_Flagged(el)

C9_Organic(blocks) == SelectSeq(blocks, C9_NotFlagged)

\* The markup of C9: every block is flagged or passes, and the blocks that
\* pass are at most 10 with pairwise distinct unwrapped URLs.
C9_Shape(blocks) ==
    /\ \A i \in 1..Len(blocks) : C6_Flagged(blocks[i]) \/ C9_Passes(blocks[i])
    /\ Len(C9_Organic(blocks)) <= 10
    /\ \A i, j \in 1..Len(C9_Organic(blocks)) :
          i # j => UnwrapRedirect(LinkAndTitle(C9_Organic(blocks)[i]).url)
                     # UnwrapRedirect(LinkAndTitle(C9_Organic(blocks)[j]).url)

C9_Expected(blocks) ==
    [k \in 1..Len(C9_Organic(blocks)) |->
        [title   |-> LinkAndTitle(C9_Organic(blocks)[k]).title,
         url     |-> UnwrapRedirect(LinkAndTitle(C9_Organic(blocks)[k]).url),
         snippet |-> Snippet(C9_Organic(blocks)[k]),
         source  |-> "Bright Data SERP (Cheerio)"]]

C9_Applies ==
    ppc = "done" /\ html.isString /\ ~html.empty /\ ~html.loadThrows
    /\ C9_Shape(html.blocks)

\* C9 as stated: for k <= 10 organic blocks with distinct URLs among any
\* number of flagged blocks, the output is exactly the k organic results in
\* the order of discovery.
C9_ExactlyTheOrganic == C9_Applies => ret = Return(C9_Expected(html.blocks))

\* C9 amended: the same for 1 <= k <= 10 (with k = 0 the output is the one
\* placeholder result, not an empty list).
C9_ExactlyTheOrganicIfAny ==
    (C9_Applies /\ Len(C9_Organic(html.blocks)) >= 1)
    => ret = Return(C9_Expected(html.blocks))

\* Two organic blocks with an ad block between them gave two results.
C9_Witness ==
    /\ C9_Applies
    /\ Len(html.blocks) = 3
    /\ ~C6_Flagged(html.blocks[1])
    /\ C6_Flagged(html.blocks[2])
    /\ ~C6_Flagged(html.blocks[3])
    /\ Len(ret.value) = 2

\* C10: for markup that is a non-empty string, when no block is emitted (no
\* candidate block, or every candidate rejected) the output is exactly one
\* placeholder whose title holds the query and whose url is the search URL
\* built from the encoded query.
C10_PlaceholderWhenNothingEmitted ==
    (ppc = "done" /\ html.isString /\ ~html.empty /\ pushed = <<>>)
    => /\ ret.kind = "return"
       /\ Len(ret.value) = 1
       /\ Includes(ret.value[1].title, query)
       /\ ret.value[1].url
             = "https://www.google.com/search?q=" \o EncodeURIComponent(query)
       /\ query = "a b&c" =>
             ret.value[1].url = "https://www.google.com/search?q=a%20b%26c"

\* A document of two blocks, one rejected by the classifier and one by the
\* field extraction, gave the placeholder.
C10_Witness ==
    /\ ppc = "done" /\ html.isString /\ ~html.empty /\ pushed = <<>>
    /\ Len(html.blocks) = 2
    /\ C6_Flagged(html.blocks[1])
    /\ ~C6_Flagged(html.blocks[2])
    /\ Len(ret.value) = 1

\* No candidate block at all gave the placeholder for the query.
C10_WitnessNoBlocks ==
    /\ ppc = "done" /\ html.isString /\ ~html.empty /\ ~html.loadThrows
    /\ html.blocks = <<>>
    /\ query = "zzz_no_such_thing_123"
    /\ Len(ret.value) = 1


(***************************************************************************)
(* SpecFair: Spec with the upstream call completing. A pending fetch is    *)
(* eventually fulfilled or rejected, and so is a pending text().           *)
(***************************************************************************)
SpecFair ==
    /\ Spec
    /\ \A r \in Requests :
          /\ WF_vars(FetchResolves(r) \/ FetchRejects(r))
          /\ WF_vars(TextRejects(r) \/ ErrorTextResolves(r) \/ BodyTextResolves(r))

IsPrefix(s, t) == Len(s) <= Len(t) /\ SubSeq(t, 1, Len(s)) = s

\* The stage sequences of a request that has been answered: an exit at
\* Validated, an exit at UpstreamCalled, or the whole pipeline.
C11_Paths ==
    { <<"Received", "Validated", "Responded">>,
      <<"Received", "Validated", "UpstreamCalled", "Responded">>,
      <<"Received", "Validated", "UpstreamCalled", "Extracted", "Responded">> }

C11_StageOrder ==
    \A r \in Requests :
        /\ req[r].pc = "idle" => req[r].stages = <<>>
        /\ req[r].pc \in {"fetching", "readingError", "readingBody"} =>
              /\ req[r].stages = <<"Received", "Validated", "UpstreamCalled">>
              /\ req[r].responses = 0
        /\ req[r].pc = "responded" =>
              /\ req[r].stages \in C11_Paths
              /\ req[r].responses = 1
              /\ Len(req[r].stages) = 3 => req[r].fetches = 0 /\ req[r].parses = 0
              /\ Len(req[r].stages) = 4 => req[r].fetches = 1 /\ req[r].parses = 0
              /\ Len(req[r].stages) = 5 => req[r].fetches = 1 /\ req[r].parses = 1

C12_FailureStep(r) ==
    /\ req'[r] # req[r]
    /\ \/ req[r].pc = "readingError"
       \/ req[r].pc = "fetching" /\ req'[r].pc \notin {"readingError", "readingBody"}

\* C12: a request issues at most one upstream call; after the upstream call
\* failed (a status that is not 2xx, or a rejected fetch) the next event of
\* the request is its error response, and no second call is made.
C12_OneUpstreamCallNoRetry ==
    /\ [](\A r \in Requests : req[r].fetches <= 1)
    /\ [][\A r \in Requests :
            C12_FailureStep(r) =>
                /\ req'[r].pc = "responded"
                /\ req'[r].responses = 1
                /\ ~req'[r].response.success
                /\ req'[r].response.status \in {500, 502}
                /\ req'[r].fetches = 1
                /\ req'[r].parses = 0]_vars

\* One request was answered 502 after a 503 of the upstream and another 500
\* after its fetch was rejected, each with one upstream call.
C12_Witness ==
    \E r, o \in Requests :
        /\ Responded(r) /\ req[r].upstreamStatus = 503 /\ req[r].fetches = 1
        /\ req[r].response.status = 502
        /\ Responded(o) /\ req[o].upstreamStatus = 0 /\ req[o].fetches = 1
        /\ req[o].response.message = "fetch failed"


\* The response of a request computed from what belongs to it alone: its
\* route, query and parameters, the outcome of its own upstream call, and the
\* token read at startup.
C13_OwnResponse(rq, token) ==
    LET fresh == [IdleRequest EXCEPT !.route = rq.route, !.query = rq.query,
                                     !.params = rq.params]
        start == IF rq.route = "POST" THEN PostHandler(fresh, token)
                 ELSE GetHandler(fresh, token)
        out   == ParseGoogleHTMLWithCheerio(rq.body, rq.query.str)
    IN  IF start.pc = "responded" THEN start.response
        ELSE IF rq.bodyRead = "failed"
        THEN ProxyErrorResponse(rq.route, "body read failed")
        ELSE IF rq.upstreamStatus = 0 THEN ProxyErrorResponse(rq.route, "fetch failed")
        ELSE IF ~StatusOk(rq.upstreamStatus)
        THEN UpstreamErrorResponse(rq.route, rq.errorText)
        ELSE IF out.kind = "throw" THEN ProxyErrorResponse(rq.route, out.value)
        ELSE SuccessResponse(rq.route, rq.query.str, out.value)

\* C13: whatever the interleaving of the requests in flight, the response of
\* a request is determined by its own query parameters, its own upstream
\* response and the startup configuration; no step writes the configuration,
\* and a step of one request leaves every other request as it was.
C13_RequestsIsolated ==
    /\ [](\A r \in Requests : Responded(r) => req[r].response = C13_OwnResponse(req[r], apiToken))
    /\ [][/\ apiToken' = apiToken
          /\ \A r, o \in Requests :
                (r # o /\ req'[o] # req[o]) => req'[r] = req[r]]_vars

\* Two requests received the same upstream body and each returned both of its
\* urls: the urls seen for one did not suppress those of the other.
C13_Witness ==
    /\ \A r \in Requests :
          /\ Responded(r) /\ req[r].response.status = 200
          /\ Len(req[r].response.results) = 2
          /\ req[r].response.results[1].url = UrlA
          /\ req[r].response.results[2].url = UrlB
    /\ req["r1"].route # req["r2"].route


\* C14 as stated: a request with a valid query, the token configured and a
\* success status of the upstream is answered 200 with success true.
C14_SuccessStatusIs200 ==
    \A r \in Requests :
        (/\ Responded(r) /\ ValidQuery(r) /\ apiToken # ""
         /\ StatusOk(req[r].upstreamStatus))
        => /\ req[r].response.status = 200
           /\ req[r].response.success

\* C14, amended: a request with a valid query, the token configured and a
\* success status of the upstream is answered 200 with success true whatever
\* body text() delivers: an empty one, one cheerio cannot load, one with no
\* candidate block, one whose blocks are all skipped or fail the acceptance
\* gate.
C14_ExtractionMissesAre200 ==
    \A r \in Requests :
        (/\ Responded(r) /\ ValidQuery(r) /\ apiToken # ""
         /\ StatusOk(req[r].upstreamStatus) /\ req[r].bodyRead = "ok")
        => /\ req[r].response.status = 200
           /\ req[r].response.success
           /\ Len(req[r].response.results) >= 1

\* Requests were answered after a body cheerio could not load and after a
\* body whose only block fails the acceptance gate.
C14_Witness ==
    \E r, o \in Requests :
        /\ Responded(r) /\ ValidQuery(r) /\ req[r].body = HtmlUnloadable
        /\ req[r].bodyRead = "ok"
        /\ Responded(o) /\ ValidQuery(o) /\ req[o].bodyRead = "ok"
        /\ req[o].body = Markup(<<[Organic(UrlA) EXCEPT !.primary = Link(UrlA, "abc")]>>)


\* The titles, urls and snippets of a result list.
C15_Core(rs) ==
    [i \in DOMAIN rs |-> [title |-> rs[i].title, url |-> rs[i].url, snippet |-> rs[i].snippet]]

\* Both requests met the same upstream behaviour.
C15_SameUpstream(a, b) ==
    /\ a.upstreamStatus = b.upstreamStatus
    /\ a.bodyRead = b.bodyRead
    /\ a.errorText = b.errorText
    /\ a.body = b.body

\* C15 as stated: for the same query, num, hl and gl, the same configuration
\* and the same upstream behaviour, the GET route and the POST route send the
\* same upstream request url and return the same status and the same titles,
\* urls and snippets, placeholder paths included.
C15_GetSameAsPost ==
    \A r, o \in Requests :
        (/\ req[r].pc # "idle" /\ req[r].route = "POST"
         /\ req[o].pc # "idle" /\ req[o].route = "GET"
         /\ req[r].query = req[o].query
         /\ req[r].params = req[o].params)
        => /\ req[r].fetches = req[o].fetches
           /\ req[r].upstreamUrl = req[o].upstreamUrl
           /\ (Responded(r) /\ Responded(o) /\ C15_SameUpstream(req[r], req[o]))
              => /\ req[r].response.status = req[o].response.status
                 /\ C15_Core(req[r].response.results) = C15_Core(req[o].response.results)

\* The two disagreements, each on its own: the placeholder of the routes for
\* default parameters, and the upstream url for a num holding an ampersand.
C15_PlaceholderDiffers ==
    \E r, o \in Requests :
        /\ Responded(r) /\ req[r].route = "POST" /\ Responded(o) /\ req[o].route = "GET"
        /\ req[r].query = req[o].query /\ req[r].params = DefaultParams
        /\ req[o].params = DefaultParams
        /\ req[r].upstreamUrl = req[o].upstreamUrl
        /\ req[r].body = HtmlEmpty /\ req[o].body = HtmlEmpty
        /\ req[r].bodyRead = "ok" /\ req[o].bodyRead = "ok"
        /\ req[r].response.results[1].title # req[o].response.results[1].title
        /\ req[r].response.results[1].snippet # req[o].response.results[1].snippet

C15_UrlDiffers ==
    \E r, o \in Requests :
        /\ req[r].pc = "fetching" /\ req[r].route = "POST"
        /\ req[o].pc = "fetching" /\ req[o].route = "GET"
        /\ req[r].query = req[o].query /\ req[r].params = req[o].params
        /\ req[r].upstreamUrl # req[o].upstreamUrl


\* The number of ampersands of a string.
RECURSIVE C16_Ampersands(_)
C16_Ampersands(s) ==
    IF s = "" THEN 0
    ELSE (IF SubSeq(s, 1, 1) = "&" THEN 1 ELSE 0) + C16_Ampersands(Tail(s))

\* C16 as stated: on both routes the url of the upstream request is the
\* search url with each of query, num, hl and gl url-encoded, so that it has
\* the four parameters q, num, hl, gl and no other.
C16_ParamsEncoded ==
    \A r \in Requests :
        req[r].fetches = 1 =>
            /\ req[r].upstreamUrl =
                  "https://www.google.com/search?q=" \o EncodeURIComponent(req[r].query.str)
                  \o "&num=" \o EncodeURIComponent(req[r].params.num)
                  \o "&hl=" \o EncodeURIComponent(req[r].params.hl)
                  \o "&gl=" \o EncodeURIComponent(req[r].params.gl)
            /\ C16_Ampersands(req[r].upstreamUrl) = 3

\* The GET route alone does encode the four values.
C16_GetParamsEncoded ==
    \A r \in Requests :
        (req[r].fetches = 1 /\ req[r].route = "GET") =>
            C16_Ampersands(req[r].upstreamUrl) = 3


C17_Url(el) == UnwrapRedirect(LinkAndTitle(el).url)

\* Block i of the document is acceptable: it passes the skip tests, the URL
\* validation and the acceptance gate, and no acceptable block before it has
\* its URL.
C17_Acceptable(i) ==
    /\ C9_Passes(html.blocks[i])
    /\ \A j \in 1..(i - 1) :
          C9_Passes(html.blocks[j]) => C17_Url(html.blocks[j]) # C17_Url(html.blocks[i])

\* The acceptable blocks of the document, in discovery order.
C17_AcceptableBlocks == SelectSeq([i \in 1..Len(html.blocks) |-> i], C17_Acceptable)

\* What holds once the loop is left: the blocks pushed are the first 10
\* acceptable ones, or all of them when they are fewer, and the results are
\* theirs, in that order.
C17_InOrder ==
    /\ Len(results) = Len(pushed)
    /\ Len(results) = MAX_RESULTS => idx <= pushed[MAX_RESULTS] + 1
    /\ ppc = "after" =>
          /\ pushed = SubSeq(C17_AcceptableBlocks, 1,
                             Min(MAX_RESULTS, Len(C17_AcceptableBlocks)))
          /\ \A k \in 1..Len(pushed) : results[k].url = C17_Url(html.blocks[pushed[k]])
    /\ (ppc = "done" /\ Len(results) >= 1) => ret = Return(results)

\* C17: the results are collected in discovery order and collection stops as
\* soon as 10 are held: from then on no block is classified, extracted or
\* added (the loop is left at the next call of the callback), and the 10
\* returned are the first 10 acceptable blocks of the document.
C17_StopsAtTen ==
    /\ []C17_InOrder
    /\ [][/\ IsPrefix(results, results')
          /\ IsPrefix(pushed, pushed')
          /\ (Len(results) = MAX_RESULTS /\ ppc = "loop") =>
                /\ ppc' = "after"
                /\ results' = results
                /\ seenUrls' = seenUrls
                /\ pushed' = pushed]_vars

\* Ten results were returned although an acceptable block follows the tenth
\* in the document.
C17_Witness ==
    /\ ppc = "done"
    /\ Len(ret.value) = MAX_RESULTS
    /\ Len(pushed) = MAX_RESULTS
    /\ Len(C17_AcceptableBlocks) > MAX_RESULTS
    /\ idx = pushed[MAX_RESULTS] + 1


\* The URL validation of the claim: present, beginning with http, matching
\* no denylist entry.
C18_Validated(url) ==
    /\ url # ""
    /\ SubSeq(url, 1, 4) = "http"
    /\ \A d \in Denylist : ~Includes(url, d)

C18_Meets(e) == Len(e.title) > 3 /\ Len(e.snippet) > 10 /\ C18_Validated(e.url)

\* The placeholders: title and snippet as the model requires, and the search
\* URL of the query, which is absolute https but matches the denylist.
C18_IsPlaceholder(e, q) ==
    /\ Len(e.title) > 3 /\ Len(e.snippet) > 10
    /\ e.url = "https://www.google.com/search?q=" \o EncodeURIComponent(q)

\* Title, url and snippet extracted from a block meet the model.
C18_BlockMeets(el) ==
    /\ LinkAndTitle(el).found
    /\ Len(LinkAndTitle(el).title) > 3
    /\ Len(Snippet(el)) > 10
    /\ C18_Validated(C17_Url(el))

\* C18 as stated: every entry of every returned list, the placeholder
\* included, has a title longer than 3, a snippet longer than 10 and a url
\* that passed validation.
C18_EveryEntryMeetsModel ==
    (ppc = "done" /\ ret.kind = "return") =>
        \A k \in 1..Len(ret.value) : C18_Meets(ret.value[k])

\* C18, amended: every entry taken from a block has a title longer than 3, a
\* snippet longer than 10 and a url that passed validation; a placeholder has
\* such a title and snippet and the search url of the query; a block failing
\* one of the three is dropped without an error and leaves the entries
\* collected as they were.
C18_EntriesMeetModelPlaceholderAside ==
    /\ []((ppc = "done" /\ html.isString) =>
            /\ ret.kind = "return"
            /\ \/ /\ ret.value = results
                  /\ \A k \in 1..Len(results) : C18_Meets(results[k])
               \/ /\ results = <<>>
                  /\ \A k \in 1..Len(ret.value) : C18_IsPlaceholder(ret.value[k], query)
                  /\ \A route \in Routes :
                        C18_IsPlaceholder(NoResultsPlaceholder(route, query)[1], query))
    /\ [][(ppc = "loop" /\ idx' = idx + 1) =>
             /\ IsPrefix(results, results')
             /\ results' # results => C18_BlockMeets(html.blocks[idx'])]_vars

\* A block with a title of 3 characters was dropped after a result had been
\* collected, and the call returned that result.
C18_Witness ==
    /\ ppc = "done"
    /\ Len(html.blocks) = 2
    /\ pushed = <<1>>
    /\ LinkAndTitle(html.blocks[2]).title = "abc"
    /\ ret.value = results

\* The call returned the placeholder.
C18_WitnessPlaceholder ==
    /\ ppc = "done" /\ html.isString /\ ~html.empty /\ results = <<>>
    /\ Len(ret.value) = 1
    /\ ~C18_Validated(ret.value[1].url)


C19_Absolute(url) == SubSeq(url, 1, 7) = "http://" \/ SubSeq(url, 1, 8) = "https://"

\* C19 as stated: a block whose unwrapped URL is missing, is no absolute
\* http:// or https:// URL, matches the denylist or was accepted before is
\* dropped, so every result url that is not a placeholder's begins with
\* http:// or https:// and matches no denylist entry.
C19_UrlsAbsoluteAndAllowed ==
    /\ \A k \in 1..Len(results) :
          /\ C19_Absolute(results[k].url)
          /\ \A d \in Denylist : ~Includes(results[k].url, d)
    /\ \A k \in 1..Len(pushed) : C19_Absolute(C17_Url(html.blocks[pushed[k]]))

\* What the code does guarantee: every collected url begins with http,
\* matches no denylist entry and is collected once.
C19_UrlsBeginWithHttp ==
    /\ \A k \in 1..Len(results) :
          /\ SubSeq(results[k].url, 1, 4) = "http"
          /\ \A d \in Denylist : ~Includes(results[k].url, d)
    /\ \A i, j \in 1..Len(results) : i # j => results[i].url # results[j].url


\* The title of the claim: that of the primary link+heading pattern, else
\* the heading inside the first link of the block, else the heading near it.
C20_Title(el) ==
    IF el.primary.present /\ el.primary.heading # "" THEN el.primary.heading
    ELSE IF ~el.generic.present THEN ""
    ELSE IF el.generic.heading # "" THEN el.generic.heading
    ELSE el.blockHeading

\* Block i would be a result but for its title: it is not skipped, has a
\* link whose URL is valid and no other block's, and a snippet of more than
\* 10 characters.
C20_ResultButForTitle(i) ==
    LET el == html.blocks[i] IN
    /\ ~C6_Flagged(el) /\ ~IsTooShort(el)
    /\ el.primary.present \/ el.generic.present
    /\ C18_Validated(C17_Url(el))
    /\ \A j \in 1..Len(html.blocks) : j # i => C17_Url(html.blocks[j]) # C17_Url(el)
    /\ Len(Snippet(el)) > 10

\* C20 as stated: when the primary link+heading pattern yields no title the
\* title is the heading inside or near the first link of the block, and the
\* block is dropped for lack of a title only when that finds none either.
C20_TitleFallsBack ==
    \A i \in 1..idx :
        (/\ ppc \in {"loop", "after", "done"}
         /\ Len(results) < MAX_RESULTS
         /\ C20_ResultButForTitle(i)
         /\ Len(C20_Title(html.blocks[i])) > 3)
        => \E k \in 1..Len(pushed) :
              pushed[k] = i /\ results[k].title = C20_Title(html.blocks[i])

\* The fallback as the code has it: taken only when the block has no primary
\* link at all.
C20_FallsBackWithoutPrimaryLink ==
    \A i \in 1..idx :
        (/\ ppc \in {"loop", "after", "done"}
         /\ Len(results) < MAX_RESULTS
         /\ C20_ResultButForTitle(i)
         /\ ~html.blocks[i].primary.present
         /\ Len(C20_Title(html.blocks[i])) > 3)
        => \E k \in 1..Len(pushed) :
              pushed[k] = i /\ results[k].title = C20_Title(html.blocks[i])


\* The answer of the catch blocks: one response, 500, success false, a
\* message that is not empty, no results.
C21_Is500(rq) ==
    /\ rq.pc = "responded"
    /\ rq.responses = 1
    /\ rq.response.status = 500
    /\ ~rq.response.success
    /\ rq.response.message # ""
    /\ ~rq.response.hasResults

\* An exception was raised while request r was handled: String(query) threw,
\* the fetch was rejected, text() was rejected, or the parser threw.
C21_Threw(r) ==
    \/ req[r].pc # "idle" /\ ~req[r].query.stringifies
    \/ req[r].pc \notin {"idle", "fetching"} /\ req[r].fetches = 1
          /\ req[r].upstreamStatus = 0
    \/ req[r].bodyRead = "failed"
    \/ req[r].parses = 1 /\ req[r].parseRet.kind = "throw"

C21_WitnessFetch ==
    \E r \in Requests :
        /\ req[r].fetches = 1 /\ req[r].upstreamStatus = 0 /\ C21_Is500(req[r])
        /\ req[r].response.message = "fetch failed"


\* The verdict of the classifier on a block taken alone: rejected when one
\* of the ad / special-content tests holds or the trimmed text has fewer
\* than 50 characters.
C22_Rejected(el) == C6_Flagged(el) \/ el.textLen < 50

\* C22: a block whose trimmed text is shorter than 50 characters is never
\* emitted, and the classifier's verdict on a block is that of the block
\* taken alone, whatever blocks came before it and whatever became of them:
\* a block it rejects is dropped after every history, and a block it keeps
\* is emitted after every history in which its fields and URL pass, its URL
\* is new and fewer than 10 results are held.
C22_ShortNeverEmittedClassifierIndependent ==
    /\ [](\A k \in 1..Len(pushed) : html.blocks[pushed[k]].textLen >= 50)
    /\ [][(ppc = "loop" /\ idx' = idx + 1 /\ Len(results) < MAX_RESULTS) =>
             /\ C22_Rejected(html.blocks[idx']) => pushed' = pushed /\ results' = results
             /\ (/\ ~C22_Rejected(html.blocks[idx'])
                 /\ C18_BlockMeets(html.blocks[idx'])
                 /\ C17_Url(html.blocks[idx']) \notin seenUrls)
                => pushed' = Append(pushed, idx')]_vars

\* A block of 49 characters, with the fields of a result and a URL of its
\* own, was dropped after a result had been collected.
C22_Witness ==
    /\ ppc = "done" /\ Len(html.blocks) = 2 /\ pushed = <<1>>
    /\ html.blocks[2].textLen = 49 /\ ~C6_Flagged(html.blocks[2])
    /\ C18_BlockMeets(html.blocks[2])
    /\ C17_Url(html.blocks[2]) # C17_Url(html.blocks[1])

\* The block of 50 characters, emitted after an ad block.
C22_WitnessKept ==
    /\ ppc = "done" /\ Len(html.blocks) = 2 /\ pushed = <<2>>
    /\ html.blocks[2].textLen = 50 /\ C6_Flagged(html.blocks[1])


\* C23 as stated: the query is validated before the credential is tested on
\* both routes: a request with an invalid query and no token is answered 400,
\* never 500, and the 500 configuration error goes only to requests whose
\* query is valid.
C23_ValidationBeforeCredential ==
    \A r \in Requests :
        /\ (req[r].pc # "idle" /\ ~ValidQuery(r) /\ apiToken = "")
           => /\ Responded(r)
              /\ req[r].response.status = 400
              /\ req[r].response.error = "Invalid query parameter"
        /\ (Responded(r) /\ req[r].response.error = "Configuration error")
           => ValidQuery(r)

\* What holds of the order of the two tests: the configuration error goes
\* only to valid queries, and an invalid query that String() can convert is
\* answered 400 whatever the token.
C23_ConfigErrorOnlyForValidQuery ==
    \A r \in Requests :
        /\ (Responded(r) /\ req[r].response.error = "Configuration error")
           => ValidQuery(r) /\ apiToken = ""
        /\ (req[r].pc # "idle" /\ ~ValidQuery(r) /\ req[r].query.stringifies)
           => Responded(r) /\ req[r].response.status = 400


\* C24: the seen URLs are always the urls of the results collected so far; a
\* block dropped at the acceptance gate leaves the set as it was, so a later
\* block with the same URL and valid fields is still accepted.
C24_SeenAreResultUrls ==
    /\ seenUrls = { results[k].url : k \in 1..Len(results) }
    /\ (ppc = "after" /\ Len(results) < MAX_RESULTS) =>
          \A i \in 1..Len(html.blocks) :
              (/\ C9_Passes(html.blocks[i])
               /\ \A k \in 1..Len(pushed) :
                     pushed[k] < i =>
                        C17_Url(html.blocks[pushed[k]]) # C17_Url(html.blocks[i]))
              => \E k \in 1..Len(pushed) : pushed[k] = i

\* A block with the URL of the block before it, which had been dropped at
\* the gate for its title of 3 characters, was accepted.
C24_Witness ==
    /\ ppc = "after"
    /\ Len(html.blocks) = 2
    /\ LinkAndTitle(html.blocks[1]).title = "abc"
    /\ C17_Url(html.blocks[1]) = C17_Url(html.blocks[2])
    /\ pushed = <<2>>
    /\ seenUrls = {C17_Url(html.blocks[2])}


\* C25: every 200 response of the two routes has success true, a results
\* list of 1 to 10 entries and totalResults equal to its length; every other
\* response has success false and no results list.
C25_ResponseShape ==
    \A r \in Requests :
        Responded(r) =>
            /\ req[r].response.status \in {200, 400, 500, 502}
            /\ req[r].response.status = 200 =>
                  /\ req[r].response.success
                  /\ req[r].response.hasResults
                  /\ Len(req[r].response.results) >= 1
                  /\ Len(req[r].response.results) <= 10
                  /\ req[r].response.totalResults = Len(req[r].response.results)
            /\ req[r].response.status # 200 =>
                  /\ ~req[r].response.success
                  /\ ~req[r].response.hasResults
                  /\ req[r].response.results = <<>>

\* One request was answered 200 with 10 results from a body of 11 organic
\* blocks, the other with the 400 of an invalid query.
C25_Witness ==
    \E r, o \in Requests :
        /\ Responded(r) /\ req[r].response.status = 200
        /\ Len(req[r].body.blocks) = 11
        /\ Len(req[r].response.results) = 10
        /\ req[r].response.totalResults = 10
        /\ Responded(o) /\ req[o].response.status = 400

====
